---- MODULE Spec2Model ----
(***************************************************************************)
(* Model of scripts/generateMetrics.ts: the metrics aggregation run of     *)
(* nf-core-statistics.  One run lists the organisation's repositories,     *)
(* pages through each repository's closed pull requests and issues,        *)
(* accumulates the metric stores, optionally fetches the adopter list,     *)
(* reconciles the contributor sets, serialises the snapshot and            *)
(* optionally commits it back.                                             *)
(*                                                                         *)
(* Conventions.  A timestamp string such as "2024-12-30T00:00:00Z" is the  *)
(* record of its fields; DateTime.fromISO is modelled by the conversions   *)
(* luxon applies to those fields (epoch seconds for differences, ordinal   *)
(* and weekday for the week number).  The process runs in UTC, as on the   *)
(* scheduled runner.  An optional value (undefined | v) is <<>> or <<v>>.  *)
(* A login is the sequence of its characters.  The bucket key template     *)
(* string `${year}:${weekNumber}` is the pair <<year, weekNumber>>; the    *)
(* ":" separator makes the formatting injective on such pairs.             *)
(***************************************************************************)
EXTENDS Integers, Sequences, FiniteSets, TLC

(***************************************************************************)
(* Bounds of the model.                                                    *)
(***************************************************************************)
MaxRepos == 1
MaxPages == 2
MaxPageLen == 1
MaxItems == 2
MaxClock == 1

(***************************************************************************)
(* Program constants.                                                      *)
(***************************************************************************)
PAST_DAYS_FOR_METRICS == 30
SecondsPerDay == 24 * 60 * 60

VARIABLES
    commitChanges, withMetrics, withAdopterList, withSubset,
    pc, now,
    reposListed, reposQueued, reposNext, reposDone,
    pullPages, pullNext, issuePages, issueNext,
    namesOfContributors, namesOfRecentContributors,
    secondsToClosePulls, secondsToCloseIssues,
    bucketPullCount, bucketNewContributors,
    adopterResponse, adopterList, metrics, stored, abortCause,
    processed

flags == <<commitChanges, withMetrics, withAdopterList, withSubset>>
iter == <<reposListed, reposQueued, reposNext, reposDone,
          pullPages, pullNext, issuePages, issueNext>>
stores == <<namesOfContributors, namesOfRecentContributors,
            secondsToClosePulls, secondsToCloseIssues,
            bucketPullCount, bucketNewContributors>>
tail == <<adopterResponse, adopterList, metrics, stored>>
vars == <<flags, pc, now, iter, stores, tail, abortCause, processed>>

(***************************************************************************)
(* Calendar arithmetic of luxon's DateTime.                                *)
(***************************************************************************)
isLeapYear(year) == year % 4 = 0 /\ (year % 100 # 0 \/ year % 400 = 0)

nonLeapLadder == <<0, 31, 59, 90, 120, 151, 181, 212, 243, 273, 304, 334>>
leapLadder == <<0, 31, 60, 91, 121, 152, 182, 213, 244, 274, 305, 335>>

computeOrdinal(year, month, day) ==
    day + (IF isLeapYear(year) THEN leapLadder ELSE nonLeapLadder)[month]

LeapsThrough(year) == (year \div 4) - (year \div 100) + (year \div 400)

\* Date.UTC(year, month - 1, day) in days since 1970-01-01
DaysFromEpoch(year, month, day) ==
    365 * (year - 1970) + (LeapsThrough(year - 1) - LeapsThrough(1969))
        + computeOrdinal(year, month, day) - 1

\* ISO weekday, Monday = 1 .. Sunday = 7 (1970-01-01 was a Thursday)
dayOfWeek(year, month, day) == ((DaysFromEpoch(year, month, day) + 3) % 7) + 1

weeksInWeekYear(weekYear) ==
    LET p1 == (weekYear + LeapsThrough(weekYear)) % 7
        last == weekYear - 1
        p2 == (last + LeapsThrough(last)) % 7
    IN IF p1 = 4 \/ p2 = 3 THEN 53 ELSE 52

\* DateTime#weekNumber (gregorianToWeek)
weekNumber(dt) ==
    LET ordinal == computeOrdinal(dt.year, dt.month, dt.day)
        weekday == dayOfWeek(dt.year, dt.month, dt.day)
        n == (ordinal - weekday + 10) \div 7
    IN IF n < 1 THEN weeksInWeekYear(dt.year - 1)
       ELSE IF n > weeksInWeekYear(dt.year) THEN 1
       ELSE n

\* DateTime#toSeconds of a parsed timestamp
toSeconds(dt) ==
    DaysFromEpoch(dt.year, dt.month, dt.day) * SecondsPerDay
        + dt.hour * 3600 + dt.minute * 60 + dt.second

\* later.diff(earlier, "days"): whole days and the remaining seconds, which
\* luxon adds as the fraction rem / 86400 of a day
diffDays(later, earlier) ==
    [whole |-> (later - earlier) \div SecondsPerDay,
     rem |-> (later - earlier) % SecondsPerDay]

\* variant: the window compared with <= instead of <
daysLessOrEqual(d, n) == d.whole < n \/ (d.whole = n /\ d.rem = 0)

\* d.days < n
daysLess(d, n) == d.whole < n

\* later.diff(earlier, "seconds").seconds
diffSeconds(later, earlier) == later - earlier

(***************************************************************************)
(* Inputs: what the source provider can return.                            *)
(***************************************************************************)
At(y, mo, d, h, mi, s) ==
    [year |-> y, month |-> mo, day |-> d, hour |-> h, minute |-> mi, second |-> s]

\* the process starts at 2025-01-29T00:00:00Z
StartTime == toSeconds(At(2025, 1, 29, 0, 0, 0))

T_Old == At(2024, 1, 2, 0, 0, 0)        \* a Tuesday of the first week of 2024
T_Edge == At(2024, 12, 30, 0, 0, 0)     \* Monday, 30 days before StartTime
T_Inside == At(2024, 12, 30, 0, 0, 1)   \* one second less than 30 days
T_Day29 == At(2024, 12, 31, 0, 0, 0)    \* 29 days before StartTime
T_New == At(2025, 1, 2, 0, 0, 0)        \* Thursday of the same week as T_Edge

CreatedTimes == {T_Old, T_Edge, T_Inside, T_Day29, T_New}

Al == <<"a", "l">>
Abot == <<"a", "b", "o", "t">>
CiBot == <<"c", "i", "[", "b", "o", "t", "]">>
SnykBot == <<"s", "n", "y", "k", "-", "b", "o", "t">>

Humans == {Al, Abot}
Bots == {CiBot, SnykBot}
Logins == Humans \cup Bots

\* user: null | {login}
Users == {<<>>} \cup {<<l>> : l \in Logins}

\* closed_at: null, the second of creation, or two hours later
ClosedFor(created) ==
    {<<>>, <<created>>, <<[created EXCEPT !.hour = @ + 2]>>}

Item(user, created, closed, isPR) ==
    [user |-> user, created_at |-> created, closed_at |-> closed, pull_request |-> isPR]

Closed(user, created) == Item(user, created, <<[created EXCEPT !.hour = @ + 2]>>, FALSE)

\* One human on every creation time and with every closure shape, a second
\* human on an old and on a new item, and a new item of every other user.
WorkItems ==
    {Closed(<<Al>>, c) : c \in CreatedTimes}
    \cup {Item(<<Al>>, T_New, cl, FALSE) : cl \in ClosedFor(T_New)}
    \cup {Closed(<<Abot>>, c) : c \in {T_Old, T_New}}
    \cup {Closed(u, T_New) : u \in Users}

\* the issues endpoint also lists pull requests, marked by a pull_request key
IssueEntries ==
    WorkItems \cup {Item(<<Abot>>, T_Old, <<T_Old>>, TRUE)}

PagesOf(S, n) == UNION {[1..k -> S] : k \in 0..n}

(***************************************************************************)
(* Classification helpers of main().                                       *)
(***************************************************************************)
endsWith(s, suffix) ==
    /\ Len(s) >= Len(suffix)
    /\ SubSeq(s, Len(s) - Len(suffix) + 1, Len(s)) = suffix

botAccounts == {<<"s", "n", "y", "k", "-", "b", "o", "t">>}

\* variant: the deny-list is not consulted
isContributorABotSuffixOnly(contributor) ==
    endsWith(contributor, <<"[", "b", "o", "t", "]">>)

isContributorABot(contributor) ==
    endsWith(contributor, <<"[", "b", "o", "t", "]">>) \/ contributor \in botAccounts

isPullOrIssueWithinMetricsRange(pullOrIssue, t) ==
    daysLess(diffDays(t, toSeconds(pullOrIssue.created_at)), PAST_DAYS_FOR_METRICS)

getBucketKey(pullOrIssue) ==
    <<pullOrIssue.created_at.year, weekNumber(pullOrIssue.created_at)>>

getSecondsToClose(pullOrIssue) ==
    IF pullOrIssue.closed_at # <<>>
    THEN <<diffSeconds(toSeconds(pullOrIssue.closed_at[1]),
                       toSeconds(pullOrIssue.created_at))>>
    ELSE <<>>

\* JavaScript truthiness of a number | undefined
truthy(v) == v # <<>> /\ v[1] # 0

\* pull.user?.login && ...: a present, non-empty login
hasLogin(item) == item.user # <<>> /\ item.user[1] # <<>>

\* variant: only the item's own bucket is looked at
addNewContributorToOwnBucket(buckets, bucketKey, contributor) ==
    IF bucketKey \in DOMAIN buckets
    THEN [buckets EXCEPT ![bucketKey] = @ \cup {contributor}]
    ELSE [k \in DOMAIN buckets \cup {bucketKey} |->
            IF k = bucketKey THEN {contributor} ELSE buckets[k]]

addNewContributorToBucket(buckets, bucketKey, contributor) ==
    LET b == IF bucketKey \in DOMAIN buckets
             THEN buckets
             ELSE [k \in DOMAIN buckets \cup {bucketKey} |->
                     IF k = bucketKey THEN {} ELSE buckets[k]]
    IN IF \E k \in DOMAIN b : contributor \in b[k]
       THEN b
       ELSE [b EXCEPT ![bucketKey] = @ \cup {contributor}]

incrementPullCount(counts, key) ==
    IF key \in DOMAIN counts
    THEN [counts EXCEPT ![key] = @ + 1]
    ELSE [k \in DOMAIN counts \cup {key} |-> IF k = key THEN 1 ELSE counts[k]]

\* the contributor part shared by getPullMetrics and getIssueMetrics
trackContributor(st, item, key, inRange) ==
    IF hasLogin(item) /\ ~isContributorABot(item.user[1])
    THEN [st EXCEPT
            !.newContributors = addNewContributorToBucket(@, key, item.user[1]),
            !.recent = IF inRange THEN @ \cup {item.user[1]} ELSE @,
            !.known = IF inRange THEN @ ELSE @ \cup {item.user[1]}]
    ELSE st

getPullMetrics(st, pull, t) ==
    LET key == getBucketKey(pull)
        secondsToClose == getSecondsToClose(pull)
        isPullInRange == isPullOrIssueWithinMetricsRange(pull, t)
        counted == [st EXCEPT !.pullCount = incrementPullCount(@, key)]
        sampled == IF isPullInRange /\ truthy(secondsToClose)
                   THEN [counted EXCEPT !.closePulls = Append(@, secondsToClose[1])]
                   ELSE counted
    IN trackContributor(sampled, pull, key, isPullInRange)

getIssueMetrics(st, issue, t) ==
    LET key == getBucketKey(issue)
        secondsToClose == getSecondsToClose(issue)
        isIssueInRange == isPullOrIssueWithinMetricsRange(issue, t)
        sampled == IF isIssueInRange /\ truthy(secondsToClose)
                   THEN [st EXCEPT !.closeIssues = Append(@, secondsToClose[1])]
                   ELSE st
    IN trackContributor(sampled, issue, key, isIssueInRange)

Stores ==
    [known |-> namesOfContributors, recent |-> namesOfRecentContributors,
     closePulls |-> secondsToClosePulls, closeIssues |-> secondsToCloseIssues,
     pullCount |-> bucketPullCount, newContributors |-> bucketNewContributors]

RECURSIVE forEachPull(_, _, _)
forEachPull(st, pulls, t) ==
    IF pulls = <<>> THEN st
    ELSE forEachPull(getPullMetrics(st, Head(pulls), t), Tail(pulls), t)

RECURSIVE forEachIssue(_, _, _)
forEachIssue(st, issues, t) ==
    IF issues = <<>> THEN st
    ELSE forEachIssue(
            IF ~Head(issues).pull_request
            THEN getIssueMetrics(st, Head(issues), t)
            ELSE st,
            Tail(issues), t)

SetStores(st) ==
    /\ namesOfContributors' = st.known
    /\ namesOfRecentContributors' = st.recent
    /\ secondsToClosePulls' = st.closePulls
    /\ secondsToCloseIssues' = st.closeIssues
    /\ bucketPullCount' = st.pullCount
    /\ bucketNewContributors' = st.newContributors

\* what the run has passed to getPullMetrics / getIssueMetrics, in order
Seen(kind, page, items, t) ==
    [i \in 1..Len(items) |->
        [kind |-> kind, page |-> page, item |-> items[i], at |-> t,
         key |-> getBucketKey(items[i]),
         inRange |-> isPullOrIssueWithinMetricsRange(items[i], t)]]

RECURSIVE withoutPullRequests(_)
withoutPullRequests(issues) ==
    IF issues = <<>> THEN <<>>
    ELSE IF Head(issues).pull_request THEN withoutPullRequests(Tail(issues))
    ELSE <<Head(issues)>> \o withoutPullRequests(Tail(issues))

(***************************************************************************)
(* The adopter document and the snapshot.                                  *)
(***************************************************************************)
\* full_name values, as the code points of one-letter names
AdopterNames == {65, 66}

\* fetch(ADOPTER_URL) rejects, or resolves to a text that yaml.load rejects,
\* that parses without a contributors list, or that parses to a list
AdopterResponses ==
    {[kind |-> "network_error", names |-> <<>>],
     [kind |-> "malformed", names |-> <<>>],
     [kind |-> "no_contributors", names |-> <<>>],
     [kind |-> "ok", names |-> <<66, 65, 66>>]}

RECURSIVE sorted(_)
sorted(S) ==
    IF S = {} THEN <<>>
    ELSE LET least == CHOOSE x \in S : \A y \in S : x <= y
         IN <<least>> \o sorted(S \ {least})

\* the value getAdopterList resolves to, for a response whose fetch resolved
parseAdopters(response) ==
    IF response.kind = "ok"
    THEN sorted({response.names[i] : i \in DOMAIN response.names})
    ELSE <<>>

\* namesOfRecentContributors.forEach(...) of the finalization
\* variant: a recent-only name is not added to the known names
reconcileNameNoAdd(r, name) ==
    IF name \in r.known THEN [r EXCEPT !.recent = @ \ {name}] ELSE r

\* variant: a known name is not deleted from the recent names
reconcileNameNoDelete(r, name) ==
    IF name \in r.known THEN r ELSE [r EXCEPT !.known = @ \cup {name}]

reconcileName(r, name) ==
    IF name \in r.known
    THEN [r EXCEPT !.recent = @ \ {name}]
    ELSE [r EXCEPT !.known = @ \cup {name}]

RECURSIVE reconcile(_, _)
reconcile(todo, r) ==
    IF todo = {} THEN r
    ELSE LET name == CHOOSE n \in todo : TRUE
         IN reconcile(todo \ {name}, reconcileName(r, name))

\* JSON.stringify of the metrics (the percentile and mean fields, which are
\* functions of the stores, are left out)
snapshot(adopters, known, recent, closePulls) ==
    [namesOfAdopters |-> adopters,
     namesOfContributors |-> known,
     namesOfContributorsNew |-> recent,
     numberOfPullRequestNew |-> Len(closePulls)]

(***************************************************************************)
(* The run.                                                                *)
(***************************************************************************)
Init ==
    /\ commitChanges \in BOOLEAN
    /\ withMetrics \in BOOLEAN
    /\ withAdopterList \in BOOLEAN
    /\ withSubset \in BOOLEAN
    /\ pc = IF withMetrics THEN "repos"
            ELSE IF withAdopterList THEN "adopters" ELSE "finalize"
    /\ now = StartTime
    /\ reposListed = 0 /\ reposQueued = 0 /\ reposNext = TRUE /\ reposDone = 0
    /\ pullPages = 0 /\ pullNext = TRUE /\ issuePages = 0 /\ issueNext = TRUE
    /\ namesOfContributors = {}
    /\ namesOfRecentContributors = {}
    /\ secondsToClosePulls = <<>>
    /\ secondsToCloseIssues = <<>>
    /\ bucketPullCount = <<>>
    /\ bucketNewContributors = <<>>
    /\ adopterResponse = <<>>
    /\ adopterList = <<>>
    /\ metrics = <<>>
    /\ stored = <<>>
    /\ abortCause = "none"
    /\ processed = <<>>

\* time passes while a page is awaited (the clock is read by the
\* classification only, so the later requests leave it alone)
Await ==
    now' \in {now} \cup (IF now < StartTime + MaxClock THEN {now + 1} ELSE {})

\* variant: the rejection is swallowed and the run goes on
RejectSwallowed(cause) ==
    /\ pc' = "finalize"
    /\ abortCause' = cause

\* a rejected promise propagates out of main(): the process ends
Reject(cause) ==
    /\ pc' = "aborted"
    /\ abortCause' = cause

AfterCollection == IF withAdopterList THEN "adopters" ELSE "finalize"

Room == MaxItems - Len(processed)

Least(a, b) == IF a < b THEN a ELSE b

\* variant: no break in subset mode
leavesLoopWithoutBreak(next) == ~next

\* the page loop ends when the iterator is exhausted, or at the break of the
\* subset mode
leavesLoop(next) == withSubset \/ ~next

\* iteratorRepos yields a page of k repositories
ListRepos ==
    /\ pc = "repos"
    /\ \E k \in 0..(MaxRepos - reposListed), next \in BOOLEAN :
        /\ next => (k >= 1 /\ reposListed + k < MaxRepos)
        /\ reposListed' = reposListed + k
        /\ reposQueued' = k
        /\ reposNext' = next
        /\ pc' = IF k > 0 THEN "pulls" ELSE AfterCollection
    /\ pullPages' = 0 /\ pullNext' = TRUE
    /\ Await
    /\ UNCHANGED <<flags, reposDone, issuePages, issueNext, stores, tail,
                   abortCause, processed>>

ListReposFails ==
    /\ pc = "repos"
    /\ Reject("provider")
    /\ Await
    /\ UNCHANGED <<flags, iter, stores, tail, processed>>

\* iteratorPulls yields a page; every pull of it goes through getPullMetrics
ListPulls ==
    /\ pc = "pulls"
    /\ Await
    /\ \E pulls \in PagesOf(WorkItems, Least(MaxPageLen, Room)), next \in BOOLEAN :
        /\ next => pullPages + 1 < MaxPages
        /\ SetStores(forEachPull(Stores, pulls, now'))
        /\ processed' = processed \o Seen("pull", pullPages + 1, pulls, now')
        /\ pullPages' = pullPages + 1
        /\ pullNext' = next
        /\ IF leavesLoop(next)
           THEN pc' = "issues" /\ issuePages' = 0 /\ issueNext' = TRUE
           ELSE pc' = "pulls" /\ UNCHANGED <<issuePages, issueNext>>
    /\ UNCHANGED <<flags, reposListed, reposQueued, reposNext, reposDone,
                   tail, abortCause>>

ListPullsFails ==
    /\ pc = "pulls"
    /\ Reject("provider")
    /\ Await
    /\ UNCHANGED <<flags, iter, stores, tail, processed>>

\* iteratorIssues yields a page; every issue of it that is no pull request
\* goes through getIssueMetrics
ListIssues ==
    /\ pc = "issues"
    /\ Await
    /\ \E issues \in PagesOf(IssueEntries, Least(MaxPageLen, Room)), next \in BOOLEAN :
        /\ next => issuePages + 1 < MaxPages
        /\ SetStores(forEachIssue(Stores, issues, now'))
        /\ processed' = processed
              \o Seen("issue", issuePages + 1, withoutPullRequests(issues), now')
        /\ issuePages' = issuePages + 1
        /\ issueNext' = next
        /\ IF ~leavesLoop(next)
           THEN /\ pc' = "issues"
                /\ UNCHANGED <<reposQueued, reposDone, pullPages, pullNext>>
           ELSE /\ reposDone' = reposDone + 1
                /\ reposQueued' = reposQueued - 1
                /\ IF reposQueued > 1
                   THEN pc' = "pulls" /\ pullPages' = 0 /\ pullNext' = TRUE
                   ELSE /\ pc' = IF reposNext THEN "repos" ELSE AfterCollection
                        /\ UNCHANGED <<pullPages, pullNext>>
    /\ UNCHANGED <<flags, reposListed, reposNext, tail, abortCause>>

ListIssuesFails ==
    /\ pc = "issues"
    /\ Reject("provider")
    /\ Await
    /\ UNCHANGED <<flags, iter, stores, tail, processed>>

\* getAdopterList, when fetch resolves: a content that does not parse to a
\* contributors list is caught and gives []
GetAdopterList ==
    /\ pc = "adopters"
    /\ \E response \in AdopterResponses :
        /\ response.kind # "network_error"
        /\ adopterResponse' = <<response.kind>>
        /\ adopterList' = parseAdopters(response)
    /\ pc' = "finalize"
    /\ UNCHANGED <<flags, now, iter, stores, metrics, stored, abortCause, processed>>

\* getAdopterList, when fetch rejects: the await is outside the try block
GetAdopterListFetchRejects ==
    /\ pc = "adopters"
    /\ adopterResponse' = <<"network_error">>
    /\ Reject("adopters")
    /\ UNCHANGED <<flags, now, iter, stores, adopterList, metrics, stored, processed>>

\* the contributor sets are reconciled and the metrics serialised
Finalize ==
    /\ pc = "finalize"
    /\ LET r == reconcile(namesOfRecentContributors,
                           [known |-> namesOfContributors,
                            recent |-> namesOfRecentContributors])
       IN /\ namesOfContributors' = r.known
          /\ namesOfRecentContributors' = r.recent
          /\ metrics' = <<snapshot(adopterList, r.known, r.recent,
                                   secondsToClosePulls)>>
    /\ pc' = IF commitChanges THEN "sha" ELSE "done"
    /\ UNCHANGED <<flags, now, iter, secondsToClosePulls, secondsToCloseIssues,
                   bucketPullCount, bucketNewContributors,
                   adopterResponse, adopterList, stored, abortCause, processed>>

GetCurrentMetricFileSha ==
    /\ pc = "sha"
    /\ pc' = "write"
    /\ UNCHANGED <<flags, now, iter, stores, tail, abortCause, processed>>

GetCurrentMetricFileShaFails ==
    /\ pc = "sha"
    /\ Reject("sha")
    /\ UNCHANGED <<flags, now, iter, stores, tail, processed>>

CreateOrUpdateFileContents ==
    /\ pc = "write"
    /\ stored' = metrics
    /\ pc' = "done"
    /\ UNCHANGED <<flags, now, iter, stores, adopterResponse, adopterList, metrics,
                   abortCause, processed>>

CreateOrUpdateFileContentsFails ==
    /\ pc = "write"
    /\ Reject("write")
    /\ UNCHANGED <<flags, now, iter, stores, tail, processed>>

Next ==
    \/ ListRepos
    \/ ListReposFails
    \/ ListPulls
    \/ ListPullsFails
    \/ ListIssues
    \/ ListIssuesFails
    \/ GetAdopterList
    \/ GetAdopterListFetchRejects
    \/ Finalize
    \/ GetCurrentMetricFileSha
    \/ GetCurrentMetricFileShaFails
    \/ CreateOrUpdateFileContents
    \/ CreateOrUpdateFileContentsFails

Spec == Init /\ [][Next]_vars

(***************************************************************************)
(* Reference notions the properties are stated with.                       *)
(***************************************************************************)
Finalized == metrics # <<>>

Entries(kind) == {i \in DOMAIN processed : processed[i].kind = kind}

AuthoredBy(login) ==
    {i \in DOMAIN processed : processed[i].item.user = <<login>>}

\* the authors of the processed items that are no bots
NonBotAuthorsSeen == {l \in Logins \ Bots : AuthoredBy(l) # {}}

\* seconds from the creation of an item to the moment it was classified
Elapsed(p) == p.at - toSeconds(p.item.created_at)

InWindow(p) == Elapsed(p) < PAST_DAYS_FOR_METRICS * SecondsPerDay

\* the Monday-based week an instant falls in: two instants are in the same
\* ISO calendar week exactly when they have the same index
IsoWeekIndex(dt) == (DaysFromEpoch(dt.year, dt.month, dt.day) + 3) \div 7

RECURSIVE ExpectedSamples(_, _)
ExpectedSamples(kind, h) ==
    IF h = <<>> THEN <<>>
    ELSE LET p == Head(h)
         IN (IF p.kind = kind /\ p.item.closed_at # <<>> /\ InWindow(p)
             THEN <<toSeconds(p.item.closed_at[1]) - toSeconds(p.item.created_at)>>
             ELSE <<>>) \o ExpectedSamples(kind, Tail(h))

NewContributorSets == {bucketNewContributors[k] : k \in DOMAIN bucketNewContributors}

PullsIn(key) == {i \in Entries("pull") : processed[i].key = key}

(***************************************************************************)
(* C1 (as stated): after finalization namesOfContributors and              *)
(* namesOfRecentContributors are disjoint and their union is the set of    *)
(* all non-bot authors seen during the run.                                *)
(***************************************************************************)
C1_DisjointLedger ==
    Finalized =>
        /\ namesOfContributors \cap namesOfRecentContributors = {}
        /\ namesOfContributors \cup namesOfRecentContributors = NonBotAuthorsSeen

(***************************************************************************)
(* C1 (amended): after finalization namesOfRecentContributors is a subset  *)
(* of namesOfContributors, and their union, which is namesOfContributors,  *)
(* is the set of all non-bot authors seen during the run.                  *)
(***************************************************************************)
C1_RecentWithinKnown ==
    Finalized =>
        /\ namesOfRecentContributors \subseteq namesOfContributors
        /\ namesOfContributors \cup namesOfRecentContributors = NonBotAuthorsSeen
        /\ namesOfContributors = NonBotAuthorsSeen

C1_Witness ==
    /\ Finalized
    /\ namesOfRecentContributors # {}
    /\ namesOfContributors \ namesOfRecentContributors # {}

(***************************************************************************)
(* C2: after finalization an author is in namesOfRecentContributors        *)
(* exactly when the author is no bot, authored a processed item, and every *)
(* processed item of the author was in-window; an author with a processed  *)
(* item outside the window is not in it.                                   *)
(***************************************************************************)
C2_RecentIffOnlyInWindow ==
    Finalized =>
        \A l \in Logins :
            l \in namesOfRecentContributors <=>
                /\ l \notin Bots
                /\ AuthoredBy(l) # {}
                /\ \A i \in AuthoredBy(l) : InWindow(processed[i])

C2_Witness ==
    /\ Finalized
    /\ \E l \in Logins \ Bots :
        /\ \E i \in AuthoredBy(l) : InWindow(processed[i])
        /\ \E i \in AuthoredBy(l) : ~InWindow(processed[i])
        /\ l \notin namesOfRecentContributors

(***************************************************************************)
(* C3: in every state each author is in at most one bucket's               *)
(* new-contributor set, and that bucket is the one of the author's first   *)
(* processed item: no later call moves or copies the author to another.    *)
(***************************************************************************)
C3_OneBucketPerAuthor ==
    \A l \in Logins :
        /\ Cardinality({k \in DOMAIN bucketNewContributors :
                            l \in bucketNewContributors[k]}) <= 1
        /\ \A k \in DOMAIN bucketNewContributors :
            l \in bucketNewContributors[k] =>
                /\ AuthoredBy(l) # {}
                /\ k = processed[CHOOSE i \in AuthoredBy(l) :
                                    \A j \in AuthoredBy(l) : i <= j].key

C3_Witness ==
    \E l \in Logins, i, j \in DOMAIN processed :
        /\ i < j
        /\ processed[i].item.user = <<l>>
        /\ processed[j].item.user = <<l>>
        /\ processed[i].key # processed[j].key
        /\ l \in bucketNewContributors[processed[i].key]

(***************************************************************************)
(* C4: every processed pull request, bot-authored or not, adds one to the  *)
(* pull count of its bucket, and the login of a bot is in no contributor   *)
(* set, in any state.                                                      *)
(***************************************************************************)
C4_BotsCountedNotTracked ==
    /\ \A i \in Entries("pull") :
        /\ processed[i].key \in DOMAIN bucketPullCount
        /\ bucketPullCount[processed[i].key] = Cardinality(PullsIn(processed[i].key))
    /\ \A k \in DOMAIN bucketPullCount : PullsIn(k) # {}
    /\ \A b \in Bots :
        /\ b \notin namesOfContributors
        /\ b \notin namesOfRecentContributors
        /\ \A S \in NewContributorSets : b \notin S

C4_Witness ==
    /\ Finalized
    /\ \E i, j \in Entries("pull") :
        /\ processed[i].item.user = <<CiBot>>
        /\ processed[j].item.user = <<SnykBot>>
        /\ bucketPullCount[processed[i].key] = 2

(***************************************************************************)
(* C5 (as stated): the closure samples of the pulls are exactly the        *)
(* closedAt - createdAt seconds of the processed pulls that have a         *)
(* closedAt and are in-window, one each, and likewise for the issues.      *)
(***************************************************************************)
C5_SamplePerClosedInWindow ==
    /\ secondsToClosePulls = ExpectedSamples("pull", processed)
    /\ secondsToCloseIssues = ExpectedSamples("issue", processed)

(***************************************************************************)
(* C6 (as stated): when the adopter fetch fails, by a network error or by  *)
(* a parse error, getAdopterList gives an empty list and the run goes on:  *)
(* it is not aborted by the adopter phase.                                 *)
(***************************************************************************)
C6_AdopterFailureNotFatal ==
    adopterResponse \in {<<"network_error">>, <<"malformed">>, <<"no_contributors">>} =>
        /\ abortCause # "adopters"
        /\ adopterList = <<>>
        /\ Finalized => metrics[1].namesOfAdopters = <<>>

(***************************************************************************)
(* C7: in subset mode at most the first page of each pull and each issue   *)
(* pagination is requested, and only items of a first page are classified. *)
(***************************************************************************)
C7_SubsetFirstPageOnly ==
    withSubset =>
        /\ pullPages <= 1
        /\ issuePages <= 1
        /\ \A i \in DOMAIN processed : processed[i].page = 1

C7_Witness ==
    /\ withSubset
    /\ pc \notin {"repos", "pulls", "issues", "aborted"}
    /\ pullPages = 1 /\ pullNext
    /\ issuePages = 1 /\ issueNext
    /\ Entries("pull") # {} /\ Entries("issue") # {}

(***************************************************************************)
(* C8: a source-provider error while a page of repositories, pulls or      *)
(* issues is fetched ends the run at once, without another request, and    *)
(* nothing is written; in a run that collects metrics, a snapshot is       *)
(* written only after every listed repository's pull and issue loops have  *)
(* ended and the snapshot has been computed.                               *)
(***************************************************************************)
C8_ProviderErrorAborts ==
    /\ abortCause = "provider" => (pc = "aborted" /\ stored = <<>> /\ ~Finalized)
    /\ pc = "aborted" => stored = <<>>
    /\ stored # <<>> =>
        /\ Finalized /\ stored = metrics
        /\ withMetrics => (~reposNext /\ reposQueued = 0 /\ reposDone = reposListed)

C8_Witness ==
    /\ abortCause = "provider"
    /\ commitChanges
    /\ processed # <<>>
    /\ pc = "aborted"

(***************************************************************************)
(* C9: an item is classified in-window exactly when less than 30 days      *)
(* passed from its createdAt to its classification: 29 days is in-window,  *)
(* exactly 30 days is not.                                                 *)
(***************************************************************************)
C9_StrictThirtyDays ==
    \A i \in DOMAIN processed :
        /\ processed[i].inRange <=> InWindow(processed[i])
        /\ Elapsed(processed[i]) = 29 * SecondsPerDay => processed[i].inRange
        /\ Elapsed(processed[i]) = 30 * SecondsPerDay => ~processed[i].inRange

C9_Witness ==
    \E i, j \in DOMAIN processed :
        /\ Elapsed(processed[i]) = 29 * SecondsPerDay
        /\ Elapsed(processed[j]) = 30 * SecondsPerDay
        /\ processed[i].inRange /\ ~processed[j].inRange

(***************************************************************************)
(* C10 (as stated): two items are accumulated into the same bucket exactly *)
(* when their createdAt fall in the same ISO calendar week.                *)
(***************************************************************************)
C10_BucketIsIsoWeek ==
    \A i, j \in DOMAIN processed :
        processed[i].key = processed[j].key <=>
            IsoWeekIndex(processed[i].item.created_at)
                = IsoWeekIndex(processed[j].item.created_at)

====
